---- MODULE Spec2Model ----
\* Model of the set synchronisation of card-storage-cdn:
\*   src/auto_sync.py       YuGiOhAutoSync (planner, materializer, manifest)
\*   src/fetch_card_set.py  increment_version, update_manifest
\* Strings whose characters matter (set codes, set names, archetype names,
\* version strings) are sequences of one-character strings.
EXTENDS Integers, Sequences, FiniteSets, TLC

\* ------------------------------------------------------------------ bounds
MaxApiSets == 2       \* longest remote set list returned by the API
MaxLocal   == 1       \* number of set identifiers present locally at start
MaxCodes   == 2       \* longest set list passed to a direct manifest update
MaxTime    == 2       \* clock values used by manifest updates
MaxCards   == 2       \* longest card list reshaped on its own
MaxDownloads == 3     \* image downloads requested one after the other
MaxFetches == 2       \* runs of fetch_card_set one after the other

\* ------------------------------------------------------- characters, text
UpperAlpha == <<"A","B","C","D","E","F","G","H","I","J","K","L","M",
                "N","O","P","Q","R","S","T","U","V","W","X","Y","Z">>
LowerAlpha == <<"a","b","c","d","e","f","g","h","i","j","k","l","m",
                "n","o","p","q","r","s","t","u","v","w","x","y","z">>
Digits     == <<"0","1","2","3","4","5","6","7","8","9">>

Range(s) == { s[i] : i \in 1..Len(s) }

\* str.lower() and str.upper() on one character
LowerChar(c) ==
  IF c \in Range(UpperAlpha)
  THEN LowerAlpha[CHOOSE i \in 1..26 : UpperAlpha[i] = c]
  ELSE c
UpperChar(c) ==
  IF c \in Range(LowerAlpha)
  THEN UpperAlpha[CHOOSE i \in 1..26 : LowerAlpha[i] = c]
  ELSE c

Lower(s) == [i \in 1..Len(s) |-> LowerChar(s[i])]
Upper(s) == [i \in 1..Len(s) |-> UpperChar(s[i])]

IsAlnum(c) == c \in Range(UpperAlpha) \cup Range(LowerAlpha) \cup Range(Digits)
IsSpace(c) == c = " "

\* s[:n]
Take(s, n) == IF Len(s) > n THEN SubSeq(s, 1, n) ELSE s

\* re.sub(r'[^a-zA-Z0-9]', '', s)
StripNonAlnum(s) == SelectSeq(s, IsAlnum)

\* s.replace(' ', '').replace('-', '')
NotSpaceOrHyphen(c) == c /= " " /\ c /= "-"
RemoveSpacesHyphens(s) == SelectSeq(s, NotSpaceOrHyphen)

\* str.strip(): leading and trailing whitespace removed
RECURSIVE LStrip(_)
LStrip(s) == IF s /= <<>> /\ IsSpace(Head(s)) THEN LStrip(Tail(s)) ELSE s
RECURSIVE RStrip(_)
RStrip(s) ==
  IF s /= <<>> /\ IsSpace(s[Len(s)]) THEN RStrip(SubSeq(s, 1, Len(s) - 1)) ELSE s
Strip(s) == RStrip(LStrip(s))

\* str.split('.'): the parts between the dots (always at least one part)
RECURSIVE SplitDot(_)
SplitDot(s) ==
  IF \A i \in 1..Len(s) : s[i] /= "."
  THEN <<s>>
  ELSE LET k == CHOOSE i \in 1..Len(s) :
                  s[i] = "." /\ \A j \in 1..(i - 1) : s[j] /= "."
       IN <<SubSeq(s, 1, k - 1)>> \o SplitDot(SubSeq(s, k + 1, Len(s)))

\* '.'.join(parts)
RECURSIVE JoinDot(_)
JoinDot(parts) ==
  IF Len(parts) = 0 THEN <<>>
  ELSE IF Len(parts) = 1 THEN parts[1]
  ELSE parts[1] \o <<".">> \o JoinDot(Tail(parts))

\* int(part) for a string of decimal digits; BadInt when int() raises
BadInt == -1
DigitVal(c) == (CHOOSE i \in 1..10 : Digits[i] = c) - 1
RECURSIVE ParseDigits(_)
ParseDigits(p) ==
  IF p = <<>> THEN 0
  ELSE 10 * ParseDigits(SubSeq(p, 1, Len(p) - 1)) + DigitVal(p[Len(p)])
ParseInt(p) ==
  IF p /= <<>> /\ \A i \in 1..Len(p) : p[i] \in Range(Digits)
  THEN ParseDigits(p) ELSE BadInt

\* str(n) for n >= 0
RECURSIVE Str(_)
Str(n) == IF n < 10 THEN <<Digits[n + 1]>>
          ELSE Str(n \div 10) \o <<Digits[(n % 10) + 1]>>

\* prefix in s at position i (1-based)
MatchAt(s, sub, i) ==
  i + Len(sub) - 1 <= Len(s) /\ SubSeq(s, i, i + Len(sub) - 1) = sub

\* sub in s
Contains(s, sub) == \E i \in 1..(Len(s) + 1) : MatchAt(s, sub, i)

\* s.startswith(prefix)
StartsWith(s, prefix) == MatchAt(s, prefix, 1)

\* s.replace(old, new) for a non-empty old: every occurrence, left to right
RECURSIVE Replace(_, _, _)
Replace(s, old, new) ==
  IF s = <<>> THEN <<>>
  ELSE IF MatchAt(s, old, 1)
       THEN new \o Replace(SubSeq(s, Len(old) + 1, Len(s)), old, new)
       ELSE <<Head(s)>> \o Replace(Tail(s), old, new)

\* f"{n:03d}" for n >= 0
PadWidth == 3
RECURSIVE ZeroPad(_, _)
ZeroPad(digits, width) ==
  IF Len(digits) >= width THEN digits ELSE ZeroPad(<<"0">> \o digits, width)
Pad3(n) == ZeroPad(Str(n), PadWidth)

\* ' '.join(words)
RECURSIVE JoinSpace(_)
JoinSpace(words) ==
  IF Len(words) = 0 THEN <<>>
  ELSE IF Len(words) = 1 THEN words[1]
  ELSE words[1] \o <<" ">> \o JoinSpace(Tail(words))

\* ------------------------------------------------------------ input data
\* Remote sets as returned by cardsets.php: set_code, set_name, and whether
\* a non-blank set_image is present.
LOB    == <<"L","O","B">>
lob    == <<"l","o","b">>
SDY    == <<"S","D","Y">>
sdy    == <<"s","d","y">>
YS15   == <<"Y","S","-","1","5">>
ys15h  == <<"y","s","-","1","5">>
ys15   == <<"y","s","1","5">>
base   == <<"b","a","s","e">>
LegendName == <<"L","e","g","e","n","d","-","o","f"," ","B","l","u","e">>
DeckName   == <<"D","e","c","k",":"," ","Y","u","g","i","-","K","a","i","b","a">>
YugiName   == <<"Y","u","g","i">>
LobTwoName == <<"L","o","b"," ","2">>
legendofbl == <<"l","e","g","e","n","d","o","f","b","l">>
deckyugika == <<"d","e","c","k","y","u","g","i","k","a">>
deckcyugik == <<"d","e","c","k",":","y","u","g","i","k">>
yugi       == <<"y","u","g","i">>

SetLOB  == [set_code |-> LOB,  set_name |-> LegendName, set_image |-> TRUE]
SetSDY  == [set_code |-> SDY,  set_name |-> DeckName,   set_image |-> FALSE]
SetYS15 == [set_code |-> YS15, set_name |-> YugiName,   set_image |-> TRUE]
SetLob2 == [set_code |-> lob,  set_name |-> LobTwoName, set_image |-> FALSE]
RemoteSets == { SetLOB, SetSDY, SetYS15, SetLob2 }

\* The sets the card database lists during a synchronisation run.
SyncSets == { SetLOB, SetSDY, SetLob2 }

\* Names (without .json) of the data files that may be present at start.
LocalIds == { lob, LOB, sdy, ys15, legendofbl, deckyugika, deckcyugik, yugi }

\* Every file name a directory of the model can hold.
FileCodes == LocalIds \cup { Lower(r.set_code) : r \in RemoteSets } \cup { base }

\* Marker words of the `type` / `typeline` fields and of the local `type`.
Normal  == <<"N","o","r","m","a","l">>
Effect  == <<"E","f","f","e","c","t">>
Fusion  == <<"F","u","s","i","o","n">>
Synchro == <<"S","y","n","c","h","r","o">>
Xyz     == <<"X","y","z">>
Link    == <<"L","i","n","k">>
Ritual  == <<"R","i","t","u","a","l">>
Spell   == <<"S","p","e","l","l">>
Trap    == <<"T","r","a","p">>
Magic   == <<"M","a","g","i","c">>
Tuner   == <<"T","u","n","e","r">>
Monster == <<"M","o","n","s","t","e","r">>
CardWord == <<"C","a","r","d">>

\* Remote `type` strings.
NormalMonster       == JoinSpace(<<Normal, Monster>>)
EffectMonster       == JoinSpace(<<Effect, Monster>>)
FusionMonster       == JoinSpace(<<Fusion, Monster>>)
SynchroTunerMonster == JoinSpace(<<Synchro, Tuner, Monster>>)
SpellCard           == JoinSpace(<<Spell, CardWord>>)
TrapCard            == JoinSpace(<<Trap, CardWord>>)

\* card_sets entries: set_name and set_code of one printing of a card.
EN == <<"-","E","N">>
FR == <<"-","F","R">>
Printing(name, code) == [set_name |-> name, set_code |-> code]
Lob001 == Printing(LegendName, <<"L","O","B","-","E","N","0","0","1">>)
Lob002 == Printing(LegendName, <<"L","O","B","-","E","N","0","0","2">>)
Lob050 == Printing(LegendName, <<"L","O","B","-","E","N","0","5","0">>)
Lob008 == Printing(LegendName, <<"L","O","B","-","E","N","0","0","8">>)
Sdy006 == Printing(DeckName,   <<"S","D","Y","-","0","0","6">>)
Sdy009 == Printing(DeckName,   <<"S","D","Y","-","E","N","0","0","9">>)
Xx007  == Printing(<<"S","-","D","-","Y">>,
                   <<"X","X","-","E","N","0","0","7">>)

\* Cards as returned by cardinfo.php: id, type, archetype, card_sets, and
\* whether card_images is non-empty.
ToonName == <<"T","o","o","n">>
BlueName == <<"B","l","u","e">>
Card1 == [id |-> 1, type |-> NormalMonster, archetype |-> <<>>,
          card_sets |-> <<Lob001>>, image |-> TRUE]
Card2 == [id |-> 2, type |-> EffectMonster, archetype |-> BlueName,
          card_sets |-> <<Lob002>>, image |-> TRUE]
Card3 == [id |-> 3, type |-> SynchroTunerMonster,
          archetype |-> <<" ">> \o ToonName,
          card_sets |-> <<>>, image |-> FALSE]
Card4 == [id |-> 4, type |-> FusionMonster, archetype |-> <<" ">>,
          card_sets |-> <<Sdy006>>, image |-> FALSE]
Card5 == [id |-> 5, type |-> SpellCard, archetype |-> <<>>,
          card_sets |-> <<Lob050>>, image |-> TRUE]
Card6 == [id |-> 6, type |-> TrapCard, archetype |-> <<>>,
          card_sets |-> <<>>, image |-> FALSE]
Card7 == [id |-> 7, type |-> EffectMonster, archetype |-> <<>>,
          card_sets |-> <<Xx007>>, image |-> FALSE]
Card8 == [id |-> 8, type |-> NormalMonster, archetype |-> <<>>,
          card_sets |-> <<Lob008, Sdy009>>, image |-> FALSE]
Cards == { Card1, Card2, Card3, Card4, Card5, Card6, Card7, Card8 }
CardIds == { c.id : c \in Cards }
OneCard == <<Card1>>
\* A set of three cards without archetype: a normal monster, a spell, a trap.
TrioCards == <<Card1, Card5, Card6>>
CardLists == { OneCard, <<Card2, Card3>>, <<Card4, Card2>>, TrioCards }

\* Outcomes of one HTTP request to the card database.
Transport == "transport"   \* timeout, connection failure
HttpError == "http"        \* a status other than 200
BadJson   == "badjson"     \* body is not JSON
NoData    == "nodata"      \* JSON without a data key
EmptyData == "empty"       \* JSON with an empty data list
Ok        == "ok"
Outcomes  == { Transport, HttpError, BadJson, NoData, EmptyData, Ok }

\* ----------------------------------------------------------------- state
Sections == { "cards", "collections", "collectionCards", "archetypes" }

VARIABLES
  fs,                   \* the local file tree and manifest.json
  broken,               \* environment: the write that raises (0: none)
  images_up,               \* environment: image downloads succeed
  existing_sets,        \* YuGiOhAutoSync.existing_sets
  max_archetype_id,     \* YuGiOhAutoSync.max_archetype_id
  pc,                   \* position of the program
  dry_run,              \* run_sync argument
  api_outcome,          \* outcome of the cardsets.php request of the run
  api_sets,             \* run_sync local: result of fetch_all_cardsets
  new_sets,             \* run_sync local
  idx,                  \* run_sync local: sets of new_sets already handled
  processed_sets,       \* run_sync local
  sets_with_archetypes, \* run_sync local
  crashed,              \* run_sync ended in its except clause
  calls,                \* history: set codes passed to process_new_set
  succeeded,            \* history: lowercase codes of the sets that succeeded
  last,                 \* history: the last process_new_set call
  um_calls,             \* history: update_manifest calls made by run_sync
  fs_start,             \* history: fs when run_sync started
  now,                  \* clock read by datetime.now()
  um,                   \* history: the last direct manifest update
  arg,                  \* input of the function applied by a function run
  res                   \* its result

vars == << fs, broken, images_up, existing_sets, max_archetype_id, pc, dry_run,
           api_outcome, api_sets, new_sets, idx, processed_sets,
           sets_with_archetypes, crashed, calls, succeeded, last, um_calls,
           fs_start, now, um, arg, res >>

\* A file that does not exist / a file holding a JSON list.
NoFile == [exists |-> FALSE, content |-> <<>>]
File(content) == [exists |-> TRUE, content |-> content]

\* manifest.json
NoSection == [present |-> FALSE, has_updates |-> FALSE, updates |-> <<>>]
Section(u) == [present |-> TRUE, has_updates |-> TRUE, updates |-> u]
NoManifest ==
  [exists |-> FALSE, readable |-> TRUE, has_version |-> FALSE, version |-> <<>>,
   lastUpdated |-> 0, has_data |-> FALSE, data |-> [s \in Sections |-> NoSection]]
Update(dir, code, date) == [file |-> <<dir, code>>, date |-> date]

\* ------------------------------------------------------------ Sync Planner
\* cardsets.php either yields the list or fails; both failures are caught.
ApiOutcomes == { Ok, Transport, HttpError, BadJson }
\* The variant whose except clauses are missing the return of an empty list.
fetch_all_cardsets_unguarded(outcome, sets) == sets

fetch_all_cardsets(outcome, sets) == IF outcome = Ok THEN sets ELSE <<>>

\* Names of the .json files of the three scanned directories, base excluded.
load_existing_sets(f) ==
  { c \in FileCodes \ { base } :
      f.archetypes[c].exists \/ f.collections[c].exists \/ f.cards[c].exists }

Max(S) == IF S = {} THEN 0 ELSE CHOOSE m \in S : \A x \in S : x <= m

\* Ids of the entries of one archetype file.
ArchetypeIds(file) == { file.content[i].id : i \in 1..Len(file.content) }

get_max_archetype_id(f) ==
  Max({ 0 } \cup UNION { ArchetypeIds(f.archetypes[c]) :
                           c \in { d \in FileCodes : f.archetypes[d].exists } })

NormalizeLimit == 10

normalize_set_name(set_name) ==
  Take(StripNonAlnum(Lower(set_name)), NormalizeLimit)

\* The four candidate codes of compare_sets, in the order of the source.
possible_codes(api_set) ==
  << Lower(api_set.set_code),
     normalize_set_name(api_set.set_code),
     normalize_set_name(api_set.set_name),
     Take(RemoveSpacesHyphens(Lower(api_set.set_name)), NormalizeLimit) >>

\* The variant that tests the first candidate code only.
compare_sets_raw_code_only(sets, existing) ==
  LET IsNew(api_set) == possible_codes(api_set)[1] \notin existing
      Entry(api_set) == [api_data |-> api_set,
                         suggested_code |-> possible_codes(api_set)[1]]
      kept == SelectSeq(sets, IsNew)
  IN [i \in 1..Len(kept) |-> Entry(kept[i])]

compare_sets(sets, existing) ==
  LET IsNew(api_set) ==
        ~ \E k \in 1..4 : possible_codes(api_set)[k] \in existing
      Entry(api_set) == [api_data |-> api_set,
                         suggested_code |-> possible_codes(api_set)[1]]
      kept == SelectSeq(sets, IsNew)
  IN [i \in 1..Len(kept) |-> Entry(kept[i])]

\* ---------------------------------------------------------- card fetching
\* Result of fetch_cards_for_set: the cards returned and whether the second
\* (default-locale) request was issued.  fr/en are the outcomes of the two
\* requests, cards_fr/cards_en the data lists of their bodies.
DecodeDefault(en, cards_en) == IF en = Ok THEN cards_en ELSE <<>>

fetch_cards_for_set(fr, en, cards_fr, cards_en) ==
  IF fr = Transport THEN [cards |-> <<>>, second |-> FALSE]
  ELSE IF fr = Ok THEN [cards |-> cards_fr, second |-> FALSE]
  ELSE [cards |-> DecodeDefault(en, cards_en), second |-> TRUE]

\* --------------------------------------------------------- Set Materializer
\* nameEn of every entry of every archetype file (base.json included).
load_existing_archetypes(f) ==
  UNION { { f.archetypes[c].content[i].nameEn :
              i \in 1..Len(f.archetypes[c].content) } :
          c \in { d \in FileCodes : f.archetypes[d].exists } }

\* The variant that does not leave out the names already on disk.
extract_unique_archetypes_all(f, card_list) ==
  { Strip(card_list[i].archetype) : i \in 1..Len(card_list) } \ { <<>> }

\* The set whose list() extract_unique_archetypes returns.
extract_unique_archetypes(f, card_list) ==
  { Strip(card_list[i].archetype) : i \in 1..Len(card_list) }
    \ ({ <<>> } \cup load_existing_archetypes(f))

\* The orders in which list(set) may enumerate a set.
Orders(S) ==
  { q \in [1..Cardinality(S) -> S] : \A x \in S : \E i \in DOMAIN q : q[i] = x }

create_archetype_structure(names, max_id) ==
  [i \in 1..Len(names) |-> [id |-> max_id + i, nameEn |-> names[i]]]

create_collection_structure(set_data, set_code) ==
  << [id |-> Lower(set_code), name |-> set_data.set_name] >>

\* Lines 246-265: the local type drawn from the remote `type` string.
base_type(card_type) ==
  IF Contains(card_type, Normal) THEN Normal
  ELSE IF Contains(card_type, Effect) THEN Effect
  ELSE IF Contains(card_type, Fusion) THEN Fusion
  ELSE IF Contains(card_type, Synchro) THEN Synchro
  ELSE IF Contains(card_type, Xyz) THEN Xyz
  ELSE IF Contains(card_type, Link) THEN Link
  ELSE IF Contains(card_type, Ritual) THEN Ritual
  ELSE IF Contains(card_type, Spell) THEN Spell
  ELSE IF Contains(card_type, Trap) THEN Trap
  ELSE Normal

create_cards_structure(card_list) ==
  [i \in 1..Len(card_list) |->
     [id |-> card_list[i].id,
      type |-> base_type(card_list[i].type),
      archetype |-> Strip(card_list[i].archetype)]]

\* `word in typeline` for the list of words the card database sends.
InList(list, word) == \E i \in 1..Len(list) : list[i] = word

\* The variant of fetch_card_set's classification that tests Effect first.
fcs_card_type_effect_first(card_type, typeline) ==
  IF Contains(card_type, Spell) THEN Magic
  ELSE IF Contains(card_type, Trap) THEN Trap
  ELSE IF InList(typeline, Effect) THEN Effect
  ELSE IF InList(typeline, Synchro) THEN Synchro
  ELSE IF InList(typeline, Fusion) THEN Fusion
  ELSE IF InList(typeline, Xyz) THEN Xyz
  ELSE IF InList(typeline, Link) THEN Link
  ELSE Normal

\* fetch_card_set.py lines 232-285: the local type drawn from the remote
\* `type` string and the `typeline` list.
fcs_card_type(card_type, typeline) ==
  IF Contains(card_type, Spell) THEN Magic
  ELSE IF Contains(card_type, Trap) THEN Trap
  ELSE IF InList(typeline, Synchro) THEN Synchro
  ELSE IF InList(typeline, Fusion) THEN Fusion
  ELSE IF InList(typeline, Xyz) THEN Xyz
  ELSE IF InList(typeline, Link) THEN Link
  ELSE IF InList(typeline, Effect) THEN Effect
  ELSE Normal

\* Lines 319-323: whether a card_sets entry belongs to the target set.
card_set_matches(card_set, set_code) ==
  \/ normalize_set_name(Lower(card_set.set_name)) = Lower(set_code)
  \/ StartsWith(Lower(card_set.set_code), Lower(set_code))

\* The variant that does not pad the counter.
synthetic_id_unpadded(set_code, card_counter) ==
  Upper(set_code) \o FR \o Str(card_counter)

\* f"{set_code.upper()}-FR{card_counter:03d}"
synthetic_id(set_code, card_counter) ==
  Upper(set_code) \o FR \o Pad3(card_counter)

\* Lines 312-347: the identifier of the card at position card_counter.  The
\* first matching card_sets entry decides; its code is used when it carries
\* the -EN marker.
collection_card_id(card, set_code, card_counter) ==
  LET hits == { k \in 1..Len(card.card_sets) :
                  card_set_matches(card.card_sets[k], set_code) }
      first == CHOOSE k \in hits : \A j \in hits : k <= j
      code  == card.card_sets[first].set_code
  IN IF hits /= {} /\ Contains(code, EN)
     THEN Replace(code, EN, FR)
     ELSE synthetic_id(set_code, card_counter)

\* None in dry-run mode is the empty list here: both are falsy at the caller.
create_collection_cards_structure(card_list, set_code, dry) ==
  IF dry THEN <<>>
  ELSE [i \in 1..Len(card_list) |->
          [id |-> collection_card_id(card_list[i], set_code, i),
           cardId |-> collection_card_id(card_list[i], set_code, i),
           collectionId |-> Upper(set_code)]]

\* Content of an image file: none, the one present before the program ran,
\* the one a download wrote.
NoImage  == "none"
Original == "original"
Fetched  == "fetched"

\* The variant without the test of lines 410-411 / 442-444.
download_image_always(content, img_ok) ==
  [content |-> IF img_ok THEN Fetched ELSE content, requested |-> TRUE]

\* download_card_image / download_collection_image on one target: the
\* content of the target after the call and whether a request was sent.  An
\* existing target is kept, a failed download writes nothing.
download_image(content, img_ok) ==
  IF content /= NoImage THEN [content |-> content, requested |-> FALSE]
  ELSE [content |-> IF img_ok THEN Fetched ELSE NoImage, requested |-> TRUE]

\* Return values of process_new_set: a (success, archetype_created) pair, or
\* a bare boolean.
RetPair(s, a) == [tuple |-> TRUE,  success |-> s, archetypes |-> a]
RetBool(b)    == [tuple |-> FALSE, success |-> b, archetypes |-> FALSE]

\* The writes of process_new_set, numbered in the order of the source; the
\* write fail_at raises (missing directory, permission), 0 means none does.
WriteArchetypes == 1
WriteCollection == 2
WriteCards == 3
WriteCollectionCards == 4
FailPoints == 0..4

\* The two reshapings over the card lists and set codes of the runs, as
\* tables, so that each is computed once.
SyncCodes == { Lower(r.set_code) : r \in SyncSets }
CardsOf == [L \in CardLists \cup { <<>> } |-> create_cards_structure(L)]
CollectionCardsOf ==
  [L \in CardLists \cup { <<>> } |->
     [c \in SyncCodes |-> create_collection_cards_structure(L, c, FALSE)]]

\* The variant that writes the archetypes file for every set.
SaveArchetypesAlways(f, file_code, order, max_id, dry) ==
  IF ~dry
  THEN [f EXCEPT !.archetypes[file_code] =
          File(create_archetype_structure(order, max_id))]
  ELSE f

\* Lines 538-550: the archetypes file is written when new archetypes were
\* found, unless the run is a dry run.
SaveArchetypes(f, file_code, order, max_id, dry) ==
  IF order /= <<>> /\ ~dry
  THEN [f EXCEPT !.archetypes[file_code] =
          File(create_archetype_structure(order, max_id))]
  ELSE f

\* The variant of SaveCards without the dry-run test.
SaveCardsAlways(f, file_code, card_list, dry) ==
  [f EXCEPT !.cards[file_code] = File(CardsOf[card_list])]

\* Lines 568-575: the cards file is written unless the run is a dry run.
SaveCards(f, file_code, card_list, dry) ==
  IF ~dry
  THEN [f EXCEPT !.cards[file_code] = File(CardsOf[card_list])]
  ELSE f

Result(f, max_id, ret) == [fs |-> f, max_archetype_id |-> max_id, ret |-> ret]

\* Lines 526-601 of process_new_set, reached with a non-empty card list.
\*   fail_at   the write that raises (0: none)
\*   img_ok    whether image downloads succeed
\*   order     enumeration order of the new archetype names
Materialize(f, max_id, set_data, dry, card_list, fail_at, img_ok, order) ==
  LET file_code == Lower(set_data.set_code)
      \* collection image (lines 527-530)
      f1 == IF ~dry /\ set_data.set_image
            THEN [f EXCEPT !.collectionsImage[file_code] =
                    download_image(@, img_ok).content]
            ELSE f
      \* archetypes (lines 535-550)
      has_new   == order /= <<>>
      max1      == max_id + Len(order)
      arch_fail == has_new /\ ~dry /\ fail_at = WriteArchetypes
      f2 == SaveArchetypes(f1, file_code, order, max_id, dry)
      created == has_new
      \* collection (lines 553-565)
      coll_fail == ~dry /\ fail_at = WriteCollection
      f3 == IF ~dry
            THEN [f2 EXCEPT !.collections[file_code] =
                    File(create_collection_structure(set_data, file_code))]
            ELSE f2
      \* cards (lines 568-575)
      cards_fail == ~dry /\ fail_at = WriteCards
      f4 == SaveCards(f3, file_code, card_list, dry)
      \* collection-cards (lines 578-585)
      cc == IF dry
            THEN create_collection_cards_structure(card_list, file_code, dry)
            ELSE CollectionCardsOf[card_list][file_code]
      cc_fail == cc /= <<>> /\ ~dry /\ fail_at = WriteCollectionCards
      f5 == IF cc /= <<>> /\ ~dry
            THEN [f4 EXCEPT !.collectionCards[file_code] = File(cc)]
            ELSE f4
      \* card images (lines 588-592)
      wanted == { card_list[i].id :
                    i \in { j \in 1..Len(card_list) : card_list[j].image } }
      f6 == IF ~dry
            THEN [f5 EXCEPT !.cardsImage =
                    [n \in CardIds |->
                       IF n \in wanted THEN download_image(@[n], img_ok).content
                       ELSE @[n]]]
            ELSE f5
  IN IF arch_fail       THEN Result(f1, max1, RetPair(FALSE, FALSE))
     ELSE IF coll_fail  THEN Result(f2, max1, RetPair(FALSE, created))
     ELSE IF cards_fail THEN Result(f3, max1, RetPair(FALSE, created))
     ELSE IF cc_fail    THEN Result(f4, max1, RetPair(FALSE, created))
     ELSE Result(f6, max1, RetBool(TRUE))

\* The variant without the test of line 522.
process_new_set_unchecked(f, max_id, set_data, dry, fetched, fail_at, img_ok, order) ==
  Materialize(f, max_id, set_data, dry, fetched.cards, fail_at, img_ok, order)

\* One call of process_new_set on file tree f; fetched is the result of
\* fetch_cards_for_set.  Yields the file tree and max_archetype_id after the
\* call and the value returned to run_sync.
process_new_set(f, max_id, set_data, dry, fetched, fail_at, img_ok, order) ==
  IF fetched.cards = <<>>
  THEN Result(f, max_id, RetPair(FALSE, FALSE))
  ELSE Materialize(f, max_id, set_data, dry, fetched.cards, fail_at, img_ok,
                   order)

\* --------------------------------------------------------- Manifest Updater
\* Directory of the files a manifest section lists.
SectionDir(section) ==
  IF section = "collectionCards" THEN "collection-cards" ELSE section

DefaultVersion == <<"1", ".", "0", ".", "0">>
ZeroVersion    == <<"0", ".", "0", ".", "0">>

\* The skeleton update_manifest of auto_sync.py uses when manifest.json is
\* absent.
DefaultManifest ==
  [exists |-> TRUE, readable |-> TRUE, has_version |-> TRUE,
   version |-> DefaultVersion,
   lastUpdated |-> 0, has_data |-> TRUE,
   data |-> [s \in Sections |-> Section(<<>>)]]

\* Lines 671-673: whether they raise, and the version they produce.
VersionBumpFails(m) ==
  \/ ~m.has_version
  \/ Len(SplitDot(m.version)) < 3
  \/ ParseInt(SplitDot(m.version)[3]) = BadInt

\* The variant that increments the component at index 1 instead of 2.
BumpMinor(version) ==
  LET parts == SplitDot(version)
  IN JoinDot([parts EXCEPT ![2] = Str(ParseInt(parts[2]) + 1)])

BumpVersion(version) ==
  LET parts == SplitDot(version)
  IN JoinDot([parts EXCEPT ![3] = Str(ParseInt(parts[3]) + 1)])

\* "if rec not in updates: updates.append(rec)"
\* The variant that starts the list again from the new record.
AppendFresh(updates, rec) == <<rec>>

AppendIfAbsent(updates, rec) ==
  IF \E i \in 1..Len(updates) : updates[i] = rec
  THEN updates ELSE Append(updates, rec)

\* The loop of lines 679-711 for one section.
RECURSIVE AddUpdates(_, _, _, _)
AddUpdates(updates, section, codes, time) ==
  IF codes = <<>> THEN updates
  ELSE AddUpdates(
         AppendIfAbsent(updates, Update(SectionDir(section), Head(codes), time)),
         section, Tail(codes), time)

\* The variant that lists the archetypes file of every set.
ArchetypeCodesAll(codes, with_archetypes) == codes

\* Line 705: the set codes whose archetypes file is listed.
ArchetypeCodes(codes, with_archetypes) ==
  LET InArch(c) == \E i \in 1..Len(with_archetypes) : with_archetypes[i] = c
  IN SelectSeq(codes, InArch)

\* The variant that saves the completed structure before it bumps the
\* version.
update_manifest_early_save(m, codes, with_archetypes, time, write_ok) ==
  LET loaded == IF m.exists THEN m ELSE DefaultManifest
      ensured ==
        [loaded EXCEPT
           !.has_data = TRUE,
           !.data = [s \in Sections |->
                       IF loaded.has_data /\ loaded.data[s].present
                          /\ loaded.data[s].has_updates
                       THEN loaded.data[s]
                       ELSE Section(<<>>)]]
      CodesOf(s) == IF s = "archetypes"
                    THEN ArchetypeCodes(codes, with_archetypes) ELSE codes
      updated ==
        [ensured EXCEPT
           !.version = BumpVersion(@),
           !.lastUpdated = time,
           !.data = [s \in Sections |->
                       Section(AddUpdates(ensured.data[s].updates, s,
                                          CodesOf(s), time))]]
  IN IF m.exists /\ ~m.readable THEN [manifest |-> m, ok |-> FALSE]
     ELSE IF ~write_ok THEN [manifest |-> m, ok |-> FALSE]
     ELSE IF VersionBumpFails(loaded) THEN [manifest |-> ensured, ok |-> FALSE]
     ELSE [manifest |-> updated, ok |-> TRUE]

\* YuGiOhAutoSync.update_manifest on manifest m: the manifest.json left on
\* disk and the boolean returned.
update_manifest(m, codes, with_archetypes, time, write_ok) ==
  LET loaded == IF m.exists THEN m ELSE DefaultManifest
      \* lines 638-668
      ensured ==
        [loaded EXCEPT
           !.has_data = TRUE,
           !.data = [s \in Sections |->
                       IF loaded.has_data /\ loaded.data[s].present
                          /\ loaded.data[s].has_updates
                       THEN loaded.data[s]
                       ELSE Section(<<>>)]]
      CodesOf(s) == IF s = "archetypes"
                    THEN ArchetypeCodes(codes, with_archetypes) ELSE codes
      updated ==
        [ensured EXCEPT
           !.version = BumpVersion(@),
           !.lastUpdated = time,
           !.data = [s \in Sections |->
                       Section(AddUpdates(ensured.data[s].updates, s,
                                          CodesOf(s), time))]]
  IN IF m.exists /\ ~m.readable THEN [manifest |-> m, ok |-> FALSE]
     ELSE IF VersionBumpFails(loaded) THEN [manifest |-> m, ok |-> FALSE]
     ELSE IF ~write_ok THEN [manifest |-> m, ok |-> FALSE]
     ELSE [manifest |-> updated, ok |-> TRUE]

\* fetch_card_set.py -------------------------------------------------------
increment_version(version) ==
  LET parts == SplitDot(version)
  IN IF Len(parts) = 3 /\ ParseInt(parts[3]) /= BadInt
     THEN JoinDot([parts EXCEPT ![3] = Str(ParseInt(parts[3]) + 1)])
     ELSE version

\* The variant that appends a record whether or not the file is listed.
TouchUpdateAppend(updates, file, time) ==
  Append(updates, [file |-> file, date |-> time])

\* Lines 147-165 for one section: append the record, or restamp the first
\* record that already names the file.
TouchUpdate(updates, file, time) ==
  IF \E i \in 1..Len(updates) : updates[i].file = file
  THEN LET k == CHOOSE i \in 1..Len(updates) :
                  updates[i].file = file
                  /\ \A j \in 1..(i - 1) : updates[j].file /= file
       IN [updates EXCEPT ![k].date = time]
  ELSE Append(updates, [file |-> file, date |-> time])

\* update_manifest of fetch_card_set.py on manifest m.
fcs_update_manifest(m, name, created_archetype_file, time, write_ok) ==
  LET touched == IF created_archetype_file THEN Sections
                 ELSE Sections \ { "archetypes" }
      present(s) == m.exists /\ m.has_data /\ m.data[s].present
      \* manifest['data'][section]['updates'] raises KeyError
      raises == \E s \in touched : present(s) /\ ~m.data[s].has_updates
      current_version == IF m.exists /\ m.has_version THEN m.version
                         ELSE ZeroVersion
      SectionAfter(s) ==
        IF s \in touched
        THEN Section(TouchUpdate(IF present(s) THEN m.data[s].updates ELSE <<>>,
                                 <<SectionDir(s), name>>, time))
        ELSE IF present(s) THEN m.data[s] ELSE NoSection
      updated ==
        [exists |-> TRUE, readable |-> TRUE, has_version |-> TRUE,
         version |-> increment_version(current_version),
         lastUpdated |-> time, has_data |-> TRUE,
         data |-> [s \in Sections |-> SectionAfter(s)]]
  IN IF (m.exists /\ ~m.readable) \/ raises \/ ~write_ok
     THEN [manifest |-> m, ok |-> FALSE]
     ELSE [manifest |-> updated, ok |-> TRUE]

\* sorted(items, key): Python's stable sort, given the key of every item.
SortedBy(items, keys) ==
  LET Rank(i) == 1 + Cardinality({ j \in 1..Len(items) :
                     keys[j] < keys[i] \/ (keys[j] = keys[i] /\ j < i) })
  IN [p \in 1..Len(items) |-> items[CHOOSE i \in 1..Len(items) : Rank(i) = p]]

\* Lines 318-323: int of the first run of digits that follows a hyphen, or 0.
RECURSIVE DigitRun(_, _)
DigitRun(s, i) ==
  IF i <= Len(s) /\ s[i] \in Range(Digits)
  THEN <<s[i]>> \o DigitRun(s, i + 1) ELSE <<>>
extract_number(id) ==
  LET starts == { i \in 1..(Len(id) - 1) :
                    id[i] = "-" /\ id[i + 1] \in Range(Digits) }
  IN IF starts = {} THEN 0
     ELSE ParseDigits(DigitRun(id, 1 + CHOOSE i \in starts :
                                       \A j \in starts : i <= j))

\* save_archetype_to_file: the archetypes directory after the call.  The id
\* is one more than the highest id of the target file; it is written as a
\* decimal string and read back with int(), and stands here as its value.
save_archetype_to_file(f, archetype_name_en, file_code) ==
  LET archetypes == f.archetypes[file_code].content
      max_id == Max({ 0 } \cup ArchetypeIds(f.archetypes[file_code]))
  IN IF \E i \in 1..Len(archetypes) : archetypes[i].nameEn = archetype_name_en
     THEN f
     ELSE [f EXCEPT !.archetypes[file_code] =
             File(Append(archetypes,
                         [id |-> max_id + 1, nameEn |-> archetype_name_en]))]

\* Lines 288-296 over the whole card list: the names saved, in order.
RECURSIVE NewArchetypes(_, _)
NewArchetypes(card_list, known) ==
  IF card_list = <<>> THEN <<>>
  ELSE LET name == Head(card_list).archetype
       IN IF name /= <<>> /\ name \notin known
          THEN <<name>> \o NewArchetypes(Tail(card_list), known \cup { name })
          ELSE NewArchetypes(Tail(card_list), known)
RECURSIVE SaveArchetypeList(_, _, _)
SaveArchetypeList(f, names, file_code) ==
  IF names = <<>> THEN f
  ELSE SaveArchetypeList(save_archetype_to_file(f, Head(names), file_code),
                         Tail(names), file_code)

\* Lines 218-225: the cards of the first response followed by the cards of
\* the second whose id the first does not hold.
merge_cards(cards_fr, cards_en) ==
  LET Missing(card) == \A i \in 1..Len(cards_fr) : cards_fr[i].id /= card.id
  IN cards_fr \o SelectSeq(cards_en, Missing)

\* Lines 300-326: one entry per card that has a printing named card_set,
\* sorted by the number in the printing's code.
fcs_collection_cards(card_list, card_set, collection_id) ==
  LET Hits(card) == { k \in 1..Len(card.card_sets) :
                       card.card_sets[k].set_name = card_set }
      Printed(card) == Hits(card) /= {}
      Entry(card) ==
        [id |-> card.card_sets[CHOOSE k \in Hits(card) :
                                 \A j \in Hits(card) : k <= j].set_code,
         cardId |-> Str(card.id), collectionId |-> collection_id]
      printed == SelectSeq(card_list, Printed)
      entries == [i \in 1..Len(printed) |-> Entry(printed[i])]
  IN SortedBy(entries, [i \in 1..Len(entries) |-> extract_number(entries[i].id)])

\* Position given to a card that has no collection-cards entry (line 336).
NoPosition == 999999

\* Lines 231-298 and 328-338: the reshaped cards, sorted by the position of
\* their entry in the collection-cards list.
fcs_formatted_cards(card_list, collection_cards) ==
  LET formatted ==
        [i \in 1..Len(card_list) |->
           [id |-> Str(card_list[i].id),
            type |-> fcs_card_type(card_list[i].type, <<>>),
            archetype |-> card_list[i].archetype]]
      Places(card) == { k \in 1..Len(collection_cards) :
                          collection_cards[k].cardId = card.id }
      Position(card) ==
        IF Places(card) = {} THEN NoPosition
        ELSE (CHOOSE k \in Places(card) : \A j \in Places(card) : j <= k) - 1
  IN SortedBy(formatted, [i \in 1..Len(formatted) |-> Position(formatted[i])])

\* The variant that always reports an archetype file.
created_archetype_file_always(names) == TRUE

\* Lines 186 and 296: whether an archetype file was created.
created_archetype_file(names) == names /= <<>>

\* The writes of fetch_card_set, in the order of the source.
FcsWriteCollection == 1
FcsWriteArchetype == 2
FcsWriteCards == 3
FcsWriteCollectionCards == 4
FcsFailPoints == 0..4

FcsResult(f, ret, raised) == [fs |-> f, ret |-> ret, raised |-> raised]

\* fetch_card_set(card_set, name, collection_id, code_prefix): the file tree
\* after the call, the value returned and whether an exception left the
\* function.  fr and en are the outcomes of the two requests.
fetch_card_set(f, card_set, name, collection_id, fr, en, cards_fr, cards_en, fail_at, time, write_ok) ==
  LET existing_archetypes == load_existing_archetypes(f)
      \* line 189, outside the try
      f1 == [f EXCEPT !.collections[name] =
               File(<< [id |-> name, name |-> card_set] >>)]
      data == merge_cards(cards_fr, IF en = Ok THEN cards_en ELSE <<>>)
      names == NewArchetypes(data, existing_archetypes)
      f2 == SaveArchetypeList(f1, names, name)
      cc == fcs_collection_cards(data, card_set, collection_id)
      f3 == [f2 EXCEPT !.cards[name] = File(fcs_formatted_cards(data, cc))]
      f4 == [f3 EXCEPT !.collectionCards[name] = File(cc)]
      m  == fcs_update_manifest(f4.manifest, name, created_archetype_file(names),
                                time, write_ok)
      f5 == [f4 EXCEPT !.manifest = m.manifest]
  IN IF fail_at = FcsWriteCollection THEN FcsResult(f, FALSE, TRUE)
     ELSE IF fr /= Ok \/ cards_fr = <<>> THEN FcsResult(f1, FALSE, FALSE)
     ELSE IF en \in { Transport, HttpError, BadJson }
          THEN FcsResult(f1, FALSE, FALSE)
     ELSE IF names /= <<>> /\ fail_at = FcsWriteArchetype
          THEN FcsResult(f1, FALSE, FALSE)
     ELSE IF fail_at = FcsWriteCards THEN FcsResult(f2, FALSE, FALSE)
     ELSE IF fail_at = FcsWriteCollectionCards THEN FcsResult(f3, FALSE, FALSE)
     ELSE FcsResult(f5, TRUE, FALSE)

\* ------------------------------------------------------------------ runs
SeqsUpTo(S, n) == UNION { [1..k -> S] : k \in 0..n }

\* Lists of pairwise distinct elements of S, of length at most n.
ListsUpTo(S, n) ==
  { q \in SeqsUpTo(S, n) : \A i, j \in DOMAIN q : q[i] = q[j] => i = j }

EmptyDir == [c \in FileCodes |-> NoFile]
NoCall == [op |-> "none", codes |-> <<>>, flagged |-> <<>>, before |-> NoManifest,
           ok |-> FALSE, time |-> 0, write_ok |-> TRUE]
NoLast == [called |-> FALSE, cause |-> <<>>, cards |-> <<>>,
           ret |-> RetPair(FALSE, FALSE), changed |-> FALSE,
           appended |-> FALSE]

\* Both requests of a card fetch fail: transport error, status other than
\* 200, malformed JSON, absent or empty data.
FetchFailed(fr, en) == fr /= Ok /\ en /= Ok
NoArg == [none |-> TRUE]

NineVersion == <<"1", ".", "0", ".", "9">>
ToonId == 7

\* A manifest as an earlier update left it.
UsedManifest ==
  [DefaultManifest EXCEPT
     !.version = NineVersion,
     !.data["cards"] = Section(<< Update("cards", lob, 0) >>)]

\* Identifiers whose files may be present before the run, and the directory
\* holding the file of each.
StartIds == { lob, deckyugika }
StartDir(c) == IF c = lob THEN "cards" ELSE "collections"

\* The file tree before the run: the files of the identifiers E, an optional
\* archetypes/base.json, and manifest m.
InitTree(E, has_base, m) ==
  [archetypes |->
     [c \in FileCodes |->
        IF c = base /\ has_base
        THEN File(<< [id |-> ToonId, nameEn |-> ToonName] >>)
        ELSE NoFile],
   collections |->
     [c \in FileCodes |->
        IF c \in E /\ StartDir(c) = "collections"
        THEN File(<< [id |-> c, name |-> c] >>) ELSE NoFile],
   cards |->
     [c \in FileCodes |->
        IF c \in E /\ StartDir(c) = "cards" THEN File(<<>>) ELSE NoFile],
   collectionCards |-> EmptyDir,
   cardsImage |-> [n \in CardIds |-> NoImage],
   collectionsImage |-> [c \in FileCodes |-> NoImage],
   manifest |-> m]

\* The variables a run of the synchronisation does not use.
Unused ==
  /\ now = 1
  /\ um = NoCall
  /\ arg = NoArg
  /\ res = NoArg

NoRun ==
  /\ existing_sets = {}
  /\ max_archetype_id = 0
  /\ dry_run = FALSE
  /\ api_outcome = Ok
  /\ api_sets = <<>>
  /\ new_sets = <<>>
  /\ idx = 0
  /\ processed_sets = <<>>
  /\ sets_with_archetypes = <<>>
  /\ crashed = FALSE
  /\ calls = <<>>
  /\ succeeded = <<>>
  /\ last = NoLast
  /\ um_calls = <<>>

\* The write that raises and the state of the image host are properties of
\* the environment (a missing or read-only directory, an unreachable host)
\* and stay the same during a run.
Init ==
  /\ \E E \in SUBSET StartIds, has_base \in BOOLEAN :
       fs = InitTree(E, has_base, UsedManifest)
  /\ broken \in FailPoints
  /\ images_up \in BOOLEAN
  /\ fs_start = fs
  /\ pc = "none"
  /\ NoRun
  /\ Unused

\* YuGiOhAutoSync.__init__
Construct ==
  /\ pc = "none"
  /\ existing_sets' = load_existing_sets(fs)
  /\ max_archetype_id' = get_max_archetype_id(fs)
  /\ pc' = "idle"
  /\ UNCHANGED << fs, broken, images_up, dry_run, api_outcome, api_sets, new_sets,
                  idx, processed_sets, sets_with_archetypes, crashed, calls,
                  succeeded, last, um_calls, fs_start, now, um, arg, res >>

\* run_sync up to the loop over the new sets (lines 731-761).
RunSyncStart ==
  /\ pc = "idle"
  /\ \E dry \in BOOLEAN, max_sets \in 0..MaxApiSets,
        outcome \in ApiOutcomes, sets \in ListsUpTo(SyncSets, MaxApiSets) :
       LET fetched == fetch_all_cardsets(outcome, sets)
           found   == compare_sets(fetched, existing_sets)
           limited == IF max_sets /= 0 THEN Take(found, max_sets) ELSE found
       IN /\ dry_run' = dry
          /\ api_outcome' = outcome
          /\ api_sets' = fetched
          /\ new_sets' = IF fetched = <<>> THEN <<>> ELSE limited
          /\ pc' = IF fetched = <<>> \/ found = <<>> THEN "done" ELSE "loop"
  /\ fs_start' = fs
  /\ UNCHANGED << fs, broken, images_up, existing_sets, max_archetype_id, idx,
                  processed_sets, sets_with_archetypes, crashed, calls, succeeded,
                  last, um_calls, now, um, arg, res >>

\* One iteration of the loop of run_sync (lines 762-776): the call of
\* process_new_set and the unpacking of its result.  Unpacking a bare
\* boolean raises TypeError, which the except clause of run_sync catches.
RunSyncIteration ==
  /\ pc = "loop"
  /\ idx < Len(new_sets)
  /\ \E fr \in Outcomes, en \in Outcomes, data \in CardLists :
       \* inputs that no response carries are not enumerated
       /\ fr = Ok => en = Ok
       /\ (fr /= Ok /\ en /= Ok) => data = OneCard
       \* failures that differ in neither request leave the same state
       /\ (fr \notin { Ok, Transport } /\ en = Ok) => fr = HttpError
       /\ (fr /= Ok /\ en /= Ok) => (fr = HttpError \/ en = HttpError)
       /\ \E order \in Orders(extract_unique_archetypes(
                         fs, fetch_cards_for_set(fr, en, data, data).cards)) :
            LET api_data == new_sets[idx + 1].api_data
                fetched  == fetch_cards_for_set(fr, en, data, data)
                r == process_new_set(fs, max_archetype_id, api_data, dry_run,
                                     fetched, broken, images_up, order)
                code == Lower(api_data.set_code)
            IN /\ fs' = r.fs
               /\ max_archetype_id' = r.max_archetype_id
               /\ calls' = Append(calls, api_data.set_code)
               /\ succeeded' = IF r.ret.success THEN Append(succeeded, code)
                               ELSE succeeded
               /\ last' = [called |-> TRUE,
                           cause |-> IF FetchFailed(fr, en) THEN <<fr, en>>
                                     ELSE <<>>,
                           cards |-> fetched.cards,
                           ret |-> r.ret,
                           changed |-> r.fs /= fs,
                           appended |-> r.ret.tuple /\ r.ret.success]
               /\ IF r.ret.tuple
                  THEN /\ processed_sets' =
                            IF r.ret.success THEN Append(processed_sets, code)
                            ELSE processed_sets
                       /\ sets_with_archetypes' =
                            IF r.ret.success /\ r.ret.archetypes
                            THEN Append(sets_with_archetypes, code)
                            ELSE sets_with_archetypes
                       /\ idx' = idx + 1
                       /\ pc' = IF idx + 1 = Len(new_sets) THEN "finish"
                                ELSE "loop"
                       /\ crashed' = FALSE
                  ELSE /\ crashed' = TRUE
                       /\ pc' = "done"
                       /\ UNCHANGED << processed_sets, sets_with_archetypes,
                                       idx >>
  /\ UNCHANGED << broken, images_up, existing_sets, dry_run, api_outcome,
                  api_sets, new_sets, um_calls, fs_start, now, um, arg, res >>

\* The end of run_sync (lines 778-788).
RunSyncFinish ==
  /\ pc = "finish"
  /\ \E write_ok \in BOOLEAN :
       IF ~dry_run /\ processed_sets /= <<>>
       THEN LET r == update_manifest(fs.manifest, processed_sets,
                                     sets_with_archetypes, now, write_ok)
            IN /\ fs' = [fs EXCEPT !.manifest = r.manifest]
               /\ um_calls' = Append(um_calls, processed_sets)
               /\ now' = now + 1
       ELSE UNCHANGED << fs, um_calls, now >>
  /\ pc' = "done"
  /\ UNCHANGED << broken, images_up, existing_sets, max_archetype_id, dry_run,
                  api_outcome, api_sets, new_sets, idx, processed_sets,
                  sets_with_archetypes, crashed, calls, succeeded, last,
                  fs_start, um, arg, res >>

Next == Construct \/ RunSyncStart \/ RunSyncIteration \/ RunSyncFinish

Spec == Init /\ [][Next]_vars

\* ------------------------------------------- direct manifest updates
\* Manifests found on disk by a manifest update.
BareVersion  == <<"0", ".", "1", ".", "7">>
ShortVersion == <<"1", ".", "0">>
BareManifest ==
  [NoManifest EXCEPT !.exists = TRUE, !.has_version = TRUE,
                     !.version = BareVersion]
PartialManifest ==
  [BareManifest EXCEPT
     !.has_data = TRUE,
     !.data["cards"] = [present |-> TRUE, has_updates |-> FALSE,
                        updates |-> <<>>]]
ShortVersionManifest == [DefaultManifest EXCEPT !.version = ShortVersion]
NoVersionManifest == [DefaultManifest EXCEPT !.has_version = FALSE,
                                             !.version = <<>>]
\* manifest.json that json.load rejects.
MalformedManifest == [DefaultManifest EXCEPT !.readable = FALSE]
\* manifest.json holding the empty object.
EmptyManifest == [NoManifest EXCEPT !.exists = TRUE]
ManifestStarts ==
  { NoManifest, UsedManifest, BareManifest, PartialManifest,
    ShortVersionManifest, NoVersionManifest, MalformedManifest,
    EmptyManifest }

\* Set codes passed to the manifest updates.
ManifestCodes == { lob, sdy }

InitManifest ==
  /\ \E m \in ManifestStarts : fs = InitTree({}, FALSE, m)
  /\ broken = 0
  /\ images_up = TRUE
  /\ fs_start = fs
  /\ pc = "manifest"
  /\ NoRun
  /\ Unused

\* A call of YuGiOhAutoSync.update_manifest.
AutoUpdateManifest ==
  /\ pc = "manifest"
  /\ now <= MaxTime
  /\ \E codes \in SeqsUpTo(ManifestCodes, MaxCodes),
        with_archetypes \in ListsUpTo(ManifestCodes, MaxCodes),
        write_ok \in BOOLEAN :
       LET r == update_manifest(fs.manifest, codes, with_archetypes, now,
                                write_ok)
       IN /\ fs' = [fs EXCEPT !.manifest = r.manifest]
          /\ um' = [op |-> "auto", codes |-> codes,
                    flagged |-> with_archetypes, before |-> fs.manifest,
                    ok |-> r.ok, time |-> now, write_ok |-> write_ok]
  /\ now' = now + 1
  /\ UNCHANGED << broken, images_up, existing_sets, max_archetype_id, pc,
                  dry_run, api_outcome, api_sets, new_sets, idx,
                  processed_sets, sets_with_archetypes, crashed, calls,
                  succeeded, last, um_calls, fs_start, arg, res >>

\* A call of update_manifest of fetch_card_set.py.
FcsUpdateManifest ==
  /\ pc = "manifest"
  /\ now <= MaxTime
  /\ \E name \in ManifestCodes, created \in BOOLEAN, write_ok \in BOOLEAN :
       LET r == fcs_update_manifest(fs.manifest, name, created, now, write_ok)
       IN /\ fs' = [fs EXCEPT !.manifest = r.manifest]
          /\ um' = [op |-> "fcs", codes |-> <<name>>,
                    flagged |-> IF created THEN <<name>> ELSE <<>>,
                    before |-> fs.manifest, ok |-> r.ok, time |-> now,
                    write_ok |-> write_ok]
  /\ now' = now + 1
  /\ UNCHANGED << broken, images_up, existing_sets, max_archetype_id, pc,
                  dry_run, api_outcome, api_sets, new_sets, idx,
                  processed_sets, sets_with_archetypes, crashed, calls,
                  succeeded, last, um_calls, fs_start, arg, res >>

NextManifest == AutoUpdateManifest \/ FcsUpdateManifest

SpecManifest == InitManifest /\ [][NextManifest]_vars

\* ------------------------------------------------ fetch_cards_for_set alone
InitFetch ==
  /\ fs = InitTree({}, FALSE, NoManifest)
  /\ broken = 0
  /\ images_up = TRUE
  /\ fs_start = fs
  /\ pc = "fetch"
  /\ NoRun
  /\ now = 1
  /\ um = NoCall
  /\ arg \in [fr : Outcomes, en : Outcomes,
              cards_fr : CardLists, cards_en : CardLists]
  /\ res = NoArg

FetchCards ==
  /\ pc = "fetch"
  /\ res' = fetch_cards_for_set(arg.fr, arg.en, arg.cards_fr, arg.cards_en)
  /\ pc' = "fetched"
  /\ UNCHANGED << fs, broken, images_up, existing_sets, max_archetype_id,
                  dry_run, api_outcome, api_sets, new_sets, idx,
                  processed_sets, sets_with_archetypes, crashed, calls,
                  succeeded, last, um_calls, fs_start, now, um, arg >>

NextFetch == FetchCards

SpecFetch == InitFetch /\ [][NextFetch]_vars

\* ----------------------------------- fetch_card_set next to a run_sync run
\* The command lines of fetch_card_set: card_set, name, collection_id.
FcsTargets ==
  { [card_set |-> LegendName, name |-> lob, collection_id |-> lob],
    [card_set |-> DeckName,   name |-> sdy, collection_id |-> sdy] }

\* The write of fetch_card_set that raises in an environment where write
\* `b` of process_new_set raises: the same directory is at fault.
FcsFailAt(b) ==
  IF b = WriteArchetypes THEN FcsWriteArchetype
  ELSE IF b = WriteCollection THEN FcsWriteCollection
  ELSE b

NoFetch == [n |-> 0, name |-> <<>>, ret |-> FALSE, raised |-> FALSE]

\* One run of the fetch_card_set script, the command line drawn from
\* `targets` and the French response from `lists`.
RunFetchCardSet(targets, lists) ==
  /\ \E t \in targets, fr \in { Ok, HttpError }, en \in { Ok, HttpError, NoData },
        cards_fr \in lists, cards_en \in { OneCard, <<Card4, Card2>> },
        write_ok \in BOOLEAN :
       \* inputs that no response carries are not enumerated
       /\ (fr /= Ok \/ en /= Ok) => cards_en = OneCard
       /\ fr /= Ok => (cards_fr = OneCard /\ en = Ok)
       /\ LET r == fetch_card_set(fs, t.card_set, t.name, t.collection_id, fr,
                                  en, cards_fr, cards_en, FcsFailAt(broken),
                                  now, write_ok)
          IN /\ fs' = r.fs
             /\ res' = [n |-> res.n + 1, name |-> t.name, ret |-> r.ret,
                        raised |-> r.raised]
  /\ now' = now + 1
  /\ UNCHANGED << broken, images_up, existing_sets, max_archetype_id, pc,
                  dry_run, api_outcome, api_sets, new_sets, idx,
                  processed_sets, sets_with_archetypes, crashed, calls,
                  succeeded, last, um_calls, fs_start, um, arg >>

\* The tree before the runs: empty, or holding cards/lob.json and the
\* manifest that lists it; with or without archetypes/base.json.
InitTreeRuns ==
  /\ \E has_base \in BOOLEAN :
       \/ fs = InitTree({}, has_base, NoManifest)
       \/ fs = InitTree({ lob }, has_base, UsedManifest)
  /\ broken \in FailPoints
  /\ images_up = TRUE
  /\ fs_start = fs
  /\ pc = "none"
  /\ NoRun
  /\ now = 1
  /\ um = NoCall
  /\ arg = NoArg
  /\ res = NoFetch

\* The script is run once, before or after the run of run_sync.
FetchCardSetOnce ==
  /\ pc \in { "none", "done" }
  /\ res = NoFetch
  /\ RunFetchCardSet({ t \in FcsTargets : t.name = lob },
                     { OneCard, <<Card2, Card3>> })

NextTreeRuns ==
  FetchCardSetOnce \/ Construct \/ RunSyncStart \/ RunSyncIteration
    \/ RunSyncFinish

SpecTreeRuns == InitTreeRuns /\ [][NextTreeRuns]_vars

\* ------------------------------------------------------ fetch_card_set alone
InitFcs ==
  /\ \E has_base \in BOOLEAN : fs = InitTree({}, has_base, NoManifest)
  /\ broken \in FailPoints
  /\ images_up = TRUE
  /\ fs_start = fs
  /\ pc = "fcs"
  /\ NoRun
  /\ now = 1
  /\ um = NoCall
  /\ arg = NoArg
  /\ res = NoFetch

FetchCardSet ==
  /\ pc = "fcs"
  /\ res.n < MaxFetches
  /\ RunFetchCardSet(FcsTargets, CardLists)

NextFcs == FetchCardSet

SpecFcs == InitFcs /\ [][NextFcs]_vars

\* ------------------------------------------------------- compare_sets alone
InitCompare ==
  /\ fs = InitTree({}, FALSE, NoManifest)
  /\ broken = 0
  /\ images_up = TRUE
  /\ fs_start = fs
  /\ pc = "compare"
  /\ existing_sets \in { L \in SUBSET LocalIds : Cardinality(L) <= MaxLocal }
  /\ api_sets \in SeqsUpTo(RemoteSets, MaxApiSets)
  /\ max_archetype_id = 0
  /\ dry_run = FALSE
  /\ api_outcome = Ok
  /\ new_sets = <<>>
  /\ idx = 0
  /\ processed_sets = <<>>
  /\ sets_with_archetypes = <<>>
  /\ crashed = FALSE
  /\ calls = <<>>
  /\ succeeded = <<>>
  /\ last = NoLast
  /\ um_calls = <<>>
  /\ Unused

CompareSets ==
  /\ pc = "compare"
  /\ new_sets' = compare_sets(api_sets, existing_sets)
  /\ pc' = "compared"
  /\ UNCHANGED << fs, broken, images_up, existing_sets, max_archetype_id,
                  dry_run, api_outcome, api_sets, idx, processed_sets,
                  sets_with_archetypes, crashed, calls, succeeded, last,
                  um_calls, fs_start, now, um, arg, res >>

NextCompare == CompareSets

SpecCompare == InitCompare /\ [][NextCompare]_vars

\* ------------------------------------------------- card classification alone
\* Remote `type` strings: the markers present, in a fixed order, followed by
\* "Card" for spells and traps and by "Monster" otherwise.
TypeMarkers == <<Spell, Trap, Synchro, Fusion, Xyz, Link, Effect, Normal>>
LineMarkers == <<Synchro, Fusion, Xyz, Link, Effect>>
Pick(markers, M) == LET In(w) == w \in M IN SelectSeq(markers, In)
TypeString(M) ==
  JoinSpace(Pick(TypeMarkers, M) \o
            <<IF M /= {} /\ M \subseteq {Spell, Trap} THEN CardWord ELSE Monster>>)
TypeStrings ==
  { TypeString(M) : M \in SUBSET Range(TypeMarkers) } \cup { SynchroTunerMonster }
Typelines == { Pick(LineMarkers, T) : T \in SUBSET Range(LineMarkers) }
TypedCard(card_type) ==
  [id |-> 1, type |-> card_type, archetype |-> <<>>, card_sets |-> <<>>,
   image |-> FALSE]

InitClassify ==
  /\ fs = InitTree({}, FALSE, NoManifest)
  /\ broken = 0
  /\ images_up = TRUE
  /\ fs_start = fs
  /\ pc = "classify"
  /\ NoRun
  /\ now = 1
  /\ um = NoCall
  /\ arg \in [type : TypeStrings, typeline : Typelines]
  /\ res = NoArg

Classify ==
  /\ pc = "classify"
  /\ res' = [auto |-> create_cards_structure(<<TypedCard(arg.type)>>)[1].type,
             fcs  |-> fcs_card_type(arg.type, arg.typeline)]
  /\ pc' = "classified"
  /\ UNCHANGED << fs, broken, images_up, existing_sets, max_archetype_id,
                  dry_run, api_outcome, api_sets, new_sets, idx,
                  processed_sets, sets_with_archetypes, crashed, calls,
                  succeeded, last, um_calls, fs_start, now, um, arg >>

NextClassify == Classify

SpecClassify == InitClassify /\ [][NextClassify]_vars

\* ------------------------------------------------------ card reshaping alone
ReshapeCodes == { lob, sdy }

InitReshape ==
  /\ fs = InitTree({}, FALSE, NoManifest)
  /\ broken = 0
  /\ images_up = TRUE
  /\ fs_start = fs
  /\ pc = "reshape"
  /\ NoRun
  /\ now = 1
  /\ um = NoCall
  /\ arg \in [cards : SeqsUpTo(Cards, MaxCards), set_code : ReshapeCodes,
              dry : BOOLEAN]
  /\ res = NoArg

Reshape ==
  /\ pc = "reshape"
  /\ res' = [cards |-> create_cards_structure(arg.cards),
             collection_cards |->
               create_collection_cards_structure(arg.cards, arg.set_code,
                                                 arg.dry)]
  /\ pc' = "reshaped"
  /\ UNCHANGED << fs, broken, images_up, existing_sets, max_archetype_id,
                  dry_run, api_outcome, api_sets, new_sets, idx,
                  processed_sets, sets_with_archetypes, crashed, calls,
                  succeeded, last, um_calls, fs_start, now, um, arg >>

NextReshape == Reshape

SpecReshape == InitReshape /\ [][NextReshape]_vars

\* --------------------------------------------------- image downloads alone
\* Targets: cards-image/<id>.webp and collections-image/<code>.webp.
ImageIds == { Card1.id, Card2.id }
ImageCodes == { lob, sdy }
ImageTargets ==
  { <<"cards-image", n>> : n \in ImageIds } \cup
  { <<"collections-image", c>> : c \in ImageCodes }
ImageAt(f, t) ==
  IF t[1] = "cards-image" THEN f.cardsImage[t[2]] ELSE f.collectionsImage[t[2]]
NoDownload ==
  [n |-> 0, target |-> <<"none", 0>>, before |-> NoImage, requested |-> FALSE,
   writes |-> [t \in ImageTargets |-> 0]]
\* The record of one more call: its target, the content found, whether a
\* request was sent, and the number of files written so far per target.
Downloaded(t, before, r) ==
  [n |-> res.n + 1, target |-> t, before |-> before,
   requested |-> r.requested,
   writes |-> [res.writes EXCEPT
                 ![t] = IF r.content /= before THEN @ + 1 ELSE @]]

InitImages ==
  /\ \E present \in SUBSET ImageTargets :
       fs = [InitTree({}, FALSE, NoManifest) EXCEPT
               !.cardsImage = [n \in CardIds |->
                  IF <<"cards-image", n>> \in present
                  THEN Original ELSE NoImage],
               !.collectionsImage = [c \in FileCodes |->
                  IF <<"collections-image", c>> \in present
                  THEN Original ELSE NoImage]]
  /\ broken = 0
  /\ images_up = TRUE
  /\ fs_start = fs
  /\ pc = "images"
  /\ NoRun
  /\ now = 1
  /\ um = NoCall
  /\ arg = NoArg
  /\ res = NoDownload

\* A call of download_card_image.
DownloadCardImage ==
  /\ pc = "images"
  /\ res.n < MaxDownloads
  /\ \E card_id \in ImageIds, img_ok \in BOOLEAN :
       LET r == download_image(fs.cardsImage[card_id], img_ok)
       IN /\ fs' = [fs EXCEPT !.cardsImage[card_id] = r.content]
          /\ res' = Downloaded(<<"cards-image", card_id>>,
                               fs.cardsImage[card_id], r)
  /\ UNCHANGED << broken, images_up, existing_sets, max_archetype_id, pc,
                  dry_run, api_outcome, api_sets, new_sets, idx,
                  processed_sets, sets_with_archetypes, crashed, calls,
                  succeeded, last, um_calls, fs_start, now, um, arg >>

\* A call of download_collection_image.
DownloadCollectionImage ==
  /\ pc = "images"
  /\ res.n < MaxDownloads
  /\ \E collection_code \in ImageCodes, img_ok \in BOOLEAN :
       LET r == download_image(fs.collectionsImage[collection_code], img_ok)
       IN /\ fs' = [fs EXCEPT !.collectionsImage[collection_code] = r.content]
          /\ res' = Downloaded(<<"collections-image", collection_code>>,
                               fs.collectionsImage[collection_code], r)
  /\ UNCHANGED << broken, images_up, existing_sets, max_archetype_id, pc,
                  dry_run, api_outcome, api_sets, new_sets, idx,
                  processed_sets, sets_with_archetypes, crashed, calls,
                  succeeded, last, um_calls, fs_start, now, um, arg >>

NextImages == DownloadCardImage \/ DownloadCollectionImage

SpecImages == InitImages /\ [][NextImages]_vars

\* ================================================================== claims
\* Patch component of a version string x.y.z.
Patch(version) == ParseInt(SplitDot(version)[3])

\* A run of run_sync has ended.
RunEnded == pc = "done"

\* C1: a run without dry-run in which at least one new set was materialized
\* successfully ends with the patch component of the manifest version exactly
\* 1 higher than before the run.
C1_PatchRisesAfterSuccess ==
  (RunEnded /\ ~dry_run /\ succeeded /= <<>>)
    => Patch(fs.manifest.version) = Patch(fs_start.manifest.version) + 1

\* C2: on every path process_new_set returns a pair (success flag,
\* archetypes-were-written flag).
C2_ReturnsPair == last.called => last.ret.tuple

\* C3: in a run without dry-run, process_new_set is invoked once for each
\* new set in planner order whatever the earlier outcomes, and then, if a set
\* succeeded, update_manifest is invoked exactly once with the lowercase
\* codes of exactly the sets that succeeded.
C3_EverySetThenOneManifestUpdate ==
  (RunEnded /\ ~dry_run /\ api_outcome = Ok)
    => /\ calls = [i \in 1..Len(new_sets) |-> new_sets[i].api_data.set_code]
       /\ succeeded /= <<>> => um_calls = << succeeded >>

\* C4: compare_sets reports a remote set as new exactly when none of its
\* four candidate codes is a local identifier, keeps the remote order, and
\* never reports a set whose lowercased raw code is a local identifier.
C4_Candidates(r) ==
  { Lower(r.set_code),
    Take(StripNonAlnum(Lower(r.set_code)), 10),
    Take(StripNonAlnum(Lower(r.set_name)), 10),
    Take(RemoveSpacesHyphens(Lower(r.set_name)), 10) }
C4_Unknown(r) == C4_Candidates(r) \cap existing_sets = {}
C4_NewIffNoCandidateLocal ==
  pc = "compared"
    => /\ [i \in 1..Len(new_sets) |-> new_sets[i].api_data]
            = SelectSeq(api_sets, C4_Unknown)
       /\ \A i \in 1..Len(api_sets) :
            Lower(api_sets[i].set_code) \in existing_sets
              => \A k \in 1..Len(new_sets) :
                   new_sets[k].api_data /= api_sets[i]
C4_Witness ==
  /\ pc = "compared"
  /\ Len(api_sets) = 2
  /\ Len(new_sets) = 1
  /\ Lower(api_sets[1].set_code) \notin existing_sets
  /\ ~C4_Unknown(api_sets[1])
  /\ new_sets[1].api_data = api_sets[2]

\* C5: after any sequence of update_manifest invocations, no section's
\* updates list holds two records with the same file.
C5_NoDuplicateFile ==
  \A s \in Sections :
    \A i, j \in 1..Len(fs.manifest.data[s].updates) :
      fs.manifest.data[s].updates[i].file = fs.manifest.data[s].updates[j].file
        => i = j

\* C6: an update_manifest invocation that succeeds on a manifest of version
\* x.y.z leaves version x.y.(z+1) and stamps lastUpdated, whatever the number
\* of set codes passed.
IsXYZ(m) ==
  /\ m.exists
  /\ m.has_version
  /\ Len(SplitDot(m.version)) = 3
  /\ \A k \in 1..3 : ParseInt(SplitDot(m.version)[k]) /= BadInt
C6_PatchPlusOnePerInvocation ==
  (um.op /= "none" /\ um.ok /\ IsXYZ(um.before))
    => LET old == SplitDot(um.before.version)
           new == SplitDot(fs.manifest.version)
       IN /\ Len(new) = 3
          /\ new[1] = old[1]
          /\ new[2] = old[2]
          /\ ParseInt(new[3]) = ParseInt(old[3]) + 1
          /\ fs.manifest.lastUpdated = um.time
C6_Witness ==
  /\ um.op = "auto"
  /\ um.ok
  /\ IsXYZ(um.before)
  /\ Len(um.codes) = 2
  /\ um.codes[1] /= um.codes[2]
  /\ fs.manifest.version = <<"1", ".", "0", ".", "1", "0">>

\* C7: with dry_run enabled a run writes no file and downloads no image: the
\* four data directories, the two image directories and manifest.json are as
\* they were when the run started.
C7_DryRunWritesNothing == dry_run => fs = fs_start
C7_Witness ==
  /\ dry_run
  /\ RunEnded
  /\ last.called
  /\ last.cards /= <<>>
  /\ last.ret.success

\* C8: whenever the localized request fails or is empty, the default-locale
\* request is still issued and its cards are returned.
C8_FallbackOnEveryFailure ==
  (pc = "fetched" /\ arg.fr /= Ok)
    => /\ res.second
       /\ res.cards = IF arg.en = Ok THEN arg.cards_en ELSE <<>>

\* C9: when the card fetch of a set fails on both attempts, process_new_set
\* finds no cards, writes nothing, reports failure, and run_sync goes on to
\* the next new set; the set is not passed to update_manifest.
C9_FetchFailureSkipsSet ==
  (last.called /\ last.cause /= <<>>)
    => /\ last.cards = <<>>
       /\ ~last.changed
       /\ last.ret = RetPair(FALSE, FALSE)
       /\ ~last.appended
       /\ ~crashed
       /\ idx = Len(calls)
       /\ idx < Len(new_sets) => pc = "loop"
       /\ \A k \in 1..Len(um_calls) : Range(um_calls[k]) \subseteq Range(succeeded)
C9_Witness ==
  /\ last.called
  /\ last.cause = << HttpError, BadJson >>
  /\ ~dry_run
  /\ pc = "loop"
  /\ idx = 1

\* C10: when the list-all-sets fetch fails, run_sync ends with no new set:
\* process_new_set and update_manifest are never invoked, no file is written.
C10_ListFailureEndsRun ==
  (pc \notin { "none", "idle" } /\ api_outcome /= Ok)
    => /\ RunEnded
       /\ ~crashed
       /\ api_sets = <<>>
       /\ new_sets = <<>>
       /\ calls = <<>>
       /\ um_calls = <<>>
       /\ fs = fs_start
C10_Witness == RunEnded /\ api_outcome = BadJson /\ ~dry_run

\* The order the specification documents: Spell and Trap first, then
\* Synchro > Fusion > Xyz > Link > Effect > Normal.
DocumentedType(has) ==
  IF has[Spell] THEN Magic
  ELSE IF has[Trap] THEN Trap
  ELSE IF has[Synchro] THEN Synchro
  ELSE IF has[Fusion] THEN Fusion
  ELSE IF has[Xyz] THEN Xyz
  ELSE IF has[Link] THEN Link
  ELSE IF has[Effect] THEN Effect
  ELSE Normal
Classified == pc = "classified"
InType == [w \in Range(TypeMarkers) |-> Contains(arg.type, w)]

\* C11: create_cards_structure gives every type string the first marker it
\* holds in the order Spell (as Magic), Trap, Synchro, Fusion, Xyz, Link,
\* Effect, Normal.
C11_DocumentedPrecedence == Classified => res.auto = DocumentedType(InType)

\* C12: fetch_card_set gives Magic to a type holding Spell, Trap to a type
\* holding Trap (and no Spell), whatever the typeline; otherwise the first of
\* Synchro, Fusion, Xyz, Link, Effect present in typeline, Normal when none is.
C12_FcsPrecedence ==
  Classified =>
    res.fcs = DocumentedType([w \in Range(TypeMarkers) |->
                IF w \in { Spell, Trap } THEN InType[w]
                ELSE InList(arg.typeline, w)])
C12_Witness ==
  /\ Classified
  /\ ~InType[Spell] /\ ~InType[Trap]
  /\ InType[Effect] /\ InType[Normal]
  /\ InList(arg.typeline, Synchro) /\ InList(arg.typeline, Effect)
  /\ res.fcs = Synchro

\* C13: create_cards_structure maps "Synchro Tuner Monster" to "Synchro",
\* "Normal Monster" to "Normal" and "Spell Card" to "Magic".
C13_LiteralTypes ==
  Classified =>
    /\ arg.type = SynchroTunerMonster => res.auto = Synchro
    /\ arg.type = NormalMonster => res.auto = Normal
    /\ arg.type = SpellCard => res.auto = Magic

\* The synthetic identifier as the documents write it.
Reshaped == pc = "reshaped" /\ ~arg.dry
Unmatched(card, set_code) ==
  \A k \in 1..Len(card.card_sets) : ~card_set_matches(card.card_sets[k], set_code)
ThreeDigits(n) ==
  IF n < 10 THEN <<"0", "0">> \o Str(n)
  ELSE IF n < 100 THEN <<"0">> \o Str(n)
  ELSE Str(n)
FallbackId(set_code, n) == Upper(set_code) \o <<"-", "F", "R">> \o ThreeDigits(n)

\* C16: create_collection_cards_structure yields one entry per card, and a
\* card with no card_sets entry matching the target code gets, as id and
\* cardId, the uppercased code, "-FR" and its 1-based position in the list
\* padded to three digits, whether or not the cards before it matched.
C16_FallbackIdByPosition ==
  Reshaped =>
    /\ Len(res.collection_cards) = Len(arg.cards)
    /\ \A i \in 1..Len(arg.cards) :
         Unmatched(arg.cards[i], arg.set_code) =>
           /\ res.collection_cards[i].id = FallbackId(arg.set_code, i)
           /\ res.collection_cards[i].cardId = FallbackId(arg.set_code, i)
C16_Witness ==
  /\ Reshaped
  /\ arg.set_code = lob
  /\ arg.cards = <<Card1, Card3>>
  /\ res.collection_cards[1].id = <<"L","O","B","-","F","R","0","0","1">>
  /\ res.collection_cards[2].id = <<"L","O","B","-","F","R","0","0","2">>

\* One call of process_new_set by run_sync, and what it was called with.
Called == calls' /= calls
CalledCode == Lower(calls'[Len(calls')])
NewNames == extract_unique_archetypes(fs, last'.cards)

\* The names of new, in the order of their first occurrence in card_list.
RECURSIVE Discovery(_, _)
Discovery(card_list, new) ==
  IF card_list = <<>> THEN <<>>
  ELSE LET name == Strip(Head(card_list).archetype)
       IN IF name \in new
          THEN <<name>> \o Discovery(Tail(card_list), new \ { name })
          ELSE Discovery(Tail(card_list), new)

\* C14: the archetype file a call of process_new_set writes lists the new
\* archetype names in the order of their first occurrence in the fetched
\* cards, with the ids max+1, ..., max+k, max being the highest id so far.
C14_IdsInDiscoveryOrder ==
  [][ (Called /\ fs'.archetypes /= fs.archetypes)
        => LET names == Discovery(last'.cards, NewNames)
           IN fs'.archetypes[CalledCode].content =
                [i \in 1..Len(names) |->
                   [id |-> max_archetype_id + i, nameEn |-> names[i]]] ]_vars

\* The places (file, position) of the entries of the archetype files.
ArchetypeEntries(f) ==
  UNION { { <<c, i>> : i \in 1..Len(f.archetypes[c].content) } :
          c \in { d \in FileCodes : f.archetypes[d].exists } }

\* C15: no nameEn occurs in two entries of the files under archetypes/,
\* whatever sets a non-dry run has materialized so far.
C15_NameEnUnique ==
  \A a, b \in ArchetypeEntries(fs) :
    fs.archetypes[a[1]].content[a[2]].nameEn =
      fs.archetypes[b[1]].content[b[2]].nameEn => a = b
C15_Witness ==
  /\ ~dry_run
  /\ Len(calls) = 2
  /\ fs.archetypes[base].exists
  /\ fs.archetypes[lob].exists
  /\ Len(fs.archetypes[lob].content) = 1
  /\ last.cards = <<Card4, Card2>>
  /\ ~fs.archetypes[sdy].exists

\* The set run_sync handed to the last call of process_new_set.
CalledSet == new_sets[Len(calls')].api_data

\* C17: a non-dry-run call of process_new_set that succeeds leaves the
\* collection file, the cards file and (its list being non-empty) the
\* collection-cards file of the set written; it writes the archetypes file
\* of the set when some archetype of the cards is in no archetype file, and
\* otherwise leaves every archetypes file as it was.
C17_FilesOfASuccess ==
  [][ (Called /\ ~dry_run /\ last'.ret.success)
        => /\ fs'.collections[CalledCode] =
                File(<< [id |-> CalledCode, name |-> CalledSet.set_name] >>)
           /\ fs'.cards[CalledCode].exists
           /\ Len(fs'.cards[CalledCode].content) = Len(last'.cards)
           /\ last'.cards /= <<>>
           /\ fs'.collectionCards[CalledCode].exists
           /\ Len(fs'.collectionCards[CalledCode].content) = Len(last'.cards)
           /\ \A c \in FileCodes \ { CalledCode } :
                fs'.archetypes[c] = fs.archetypes[c]
           /\ IF NewNames = {}
              THEN fs'.archetypes[CalledCode] = fs.archetypes[CalledCode]
              ELSE /\ fs'.archetypes[CalledCode].exists
                   /\ { e.nameEn : e \in Range(fs'.archetypes[CalledCode].content) }
                        = NewNames ]_vars
C17_Witness ==
  /\ ~dry_run
  /\ last.called
  /\ last.ret.success
  /\ last.cards = OneCard
  /\ calls = << SDY >>
  /\ fs.collections[sdy].exists
  /\ fs.cards[sdy].exists
  /\ fs.collectionCards[sdy].exists
  /\ \A c \in FileCodes : ~fs.archetypes[c].exists

\* The updates list of a section of manifest m as update_manifest finds it.
UpdatesBefore(m, s) ==
  IF m.exists /\ m.has_data /\ m.data[s].present /\ m.data[s].has_updates
  THEN m.data[s].updates ELSE <<>>
\* updates is before followed by one record, dated time, for each of files.
Appended(updates, before, files, time) ==
  /\ Len(updates) = Len(before) + Cardinality(files)
  /\ SubSeq(updates, 1, Len(before)) = before
  /\ { updates[i] : i \in (Len(before) + 1)..Len(updates) }
       = { [file |-> f, date |-> time] : f \in files }
FilesIn(dir, codes) == { <<dir, c>> : c \in codes }

\* C18: a call of YuGiOhAutoSync.update_manifest that succeeds appends one
\* record per set code to the cards, collections and collectionCards
\* sections, and to the archetypes section one record per set code that is
\* in sets_with_archetypes and none for the other set codes.
C18_ArchetypesOnlyWhenFlagged ==
  (um.op = "auto" /\ um.ok)
    => /\ \A s \in { "cards", "collections", "collectionCards" } :
            Appended(fs.manifest.data[s].updates, UpdatesBefore(um.before, s),
                     FilesIn(SectionDir(s), Range(um.codes)), um.time)
       /\ Appended(fs.manifest.data["archetypes"].updates,
                   UpdatesBefore(um.before, "archetypes"),
                   FilesIn("archetypes", Range(um.codes) \cap Range(um.flagged)),
                   um.time)
C18_Witness ==
  /\ um.op = "auto"
  /\ um.ok
  /\ um.codes = << lob, sdy >>
  /\ um.flagged = << sdy >>
  /\ fs.manifest.data["archetypes"].updates
       = UpdatesBefore(um.before, "archetypes")
           \o << [file |-> <<"archetypes", sdy>>, date |-> um.time] >>

\* C19: a call of download_card_image or download_collection_image whose
\* target file exists sends no request and leaves the file as it was; no
\* target is written more than once, and a file present at start never.
C19_DownloadIdempotent ==
  (pc = "images" /\ res.n > 0)
    => /\ res.before /= NoImage
            => ~res.requested /\ ImageAt(fs, res.target) = res.before
       /\ \A t \in ImageTargets :
            /\ res.writes[t] <= 1
            /\ ImageAt(fs_start, t) /= NoImage
                 => res.writes[t] = 0 /\ ImageAt(fs, t) = ImageAt(fs_start, t)
C19_Witness ==
  /\ pc = "images"
  /\ res.n = 2
  /\ res.target = <<"cards-image", Card1.id>>
  /\ res.before = Fetched
  /\ ~res.requested
  /\ res.writes[res.target] = 1
  /\ ImageAt(fs, <<"collections-image", lob>>) = Original

\* The `type` values of a cards file.
TypesOf(content) == [i \in 1..Len(content) |-> content[i].type]

\* C20: after a non-dry-run call of process_new_set for the set LOB, absent
\* locally, whose fetch returned a normal monster, a spell and a trap without
\* archetype, collections/lob.json is a one-element list with id "lob",
\* cards/lob.json has three entries of type Normal, Magic and Trap,
\* collection-cards/lob.json has three entries and archetypes/lob.json does
\* not exist.
C20_EndToEndLOB ==
  (/\ ~dry_run
   /\ broken = 0
   /\ calls = << LOB >>
   /\ last.called
   /\ last.cards = TrioCards)
    => /\ fs.collections[lob].exists
       /\ Len(fs.collections[lob].content) = 1
       /\ fs.collections[lob].content[1].id = lob
       /\ fs.cards[lob].exists
       /\ TypesOf(fs.cards[lob].content) = << Normal, Magic, Trap >>
       /\ fs.collectionCards[lob].exists
       /\ Len(fs.collectionCards[lob].content) = 3
       /\ ~fs.archetypes[lob].exists

\* C21: a remote set one of whose candidate codes equals a local identifier
\* up to letter case is not reported as new by compare_sets.
C21_CaseInsensitiveMembership ==
  pc = "compared"
    => \A i \in 1..Len(api_sets) :
         (\E l \in existing_sets, c \in C4_Candidates(api_sets[i]) :
            Lower(l) = Lower(c))
           => \A k \in 1..Len(new_sets) : new_sets[k].api_data /= api_sets[i]

\* The directories of the data files of a set.
DataDirs == { "archetypes", "collections", "cards", "collectionCards" }

\* C22: a data file that exists is not written again: a call of
\* process_new_set in a non-dry run leaves every existing file under
\* archetypes/, collections/, cards/ and collection-cards/ as it was.
C22_WrittenOnce ==
  [][ (Called /\ ~dry_run)
        => \A d \in DataDirs, c \in FileCodes :
             fs[d][c].exists => fs'[d][c] = fs[d][c] ]_vars

\* A call of update_manifest of fetch_card_set.py that succeeded, and the
\* sections it handles: archetypes only when an archetype file was created.
FcsDone == um.op = "fcs" /\ um.ok
FcsSections ==
  IF um.flagged /= <<>> THEN Sections ELSE Sections \ { "archetypes" }
FcsFile(s) == <<SectionDir(s), um.codes[1]>>
Listed(updates, file) == \E i \in 1..Len(updates) : updates[i].file = file

C24_IdsDistinctAcrossFiles ==
  \A a, b \in ArchetypeEntries(fs) :
    a[1] /= b[1]
      => fs.archetypes[a[1]].content[a[2]].id /= fs.archetypes[b[1]].content[b[2]].id

\* C25: after every successful manifest update, of either function, the
\* manifest's data holds the four sections, each with an updates list.
C25_AllSectionsAfterUpdate ==
  (um.op /= "none" /\ um.ok)
    => /\ fs.manifest.has_data
       /\ \A s \in Sections : /\ fs.manifest.data[s].present
                              /\ fs.manifest.data[s].has_updates

\* C26: the updates lists only grow: a manifest update, of either function,
\* keeps in each section every file the section listed before it, and makes
\* no list shorter.
UpdatesKept(s) ==
  LET before == UpdatesBefore(fs.manifest, s)
      after  == UpdatesBefore(fs'.manifest, s)
  IN /\ \A i \in 1..Len(before) : Listed(after, before[i].file)
     /\ Len(after) >= Len(before)
C26_UpdatesGrow == [][\A s \in Sections : UpdatesKept(s)]_vars
\* A successful update of a manifest that already listed a file, after which
\* the cards list is longer.
C26_Witness ==
  /\ um.op /= "none" /\ um.ok
  /\ UpdatesBefore(um.before, "cards") /= <<>>
  /\ Len(UpdatesBefore(fs.manifest, "cards"))
       > Len(UpdatesBefore(um.before, "cards"))

\* C27: YuGiOhAutoSync.update_manifest returns a boolean in every case: it
\* returns False when manifest.json cannot be parsed, when the version
\* string is missing or malformed and when the write fails, and a failure
\* before the write leaves manifest.json as it was.
FailsBeforeWrite(m) ==
  \/ m.exists /\ ~m.readable
  \/ VersionBumpFails(IF m.exists THEN m ELSE DefaultManifest)
C27_FailureReturnsFalse ==
  um.op = "auto"
    => /\ um.ok \in BOOLEAN
       /\ (FailsBeforeWrite(um.before) \/ ~um.write_ok) => ~um.ok
       /\ FailsBeforeWrite(um.before) => fs.manifest = um.before
\* A call that fails before a write that would have succeeded.
C27_Witness ==
  /\ um.op = "auto" /\ ~um.ok /\ um.write_ok
  /\ FailsBeforeWrite(um.before)
  /\ um.codes /= <<>>

\* C28: a call of process_new_set in a non-dry run that reports failure has
\* created or modified none of the four data files of its set.
C28_AllOrNothing ==
  [][ (Called /\ ~dry_run /\ ~last'.ret.success)
        => \A d \in DataDirs : fs'[d][CalledCode] = fs[d][CalledCode] ]_vars

\* C29: for a list of distinct cards of which some match a printing of the
\* target set and others do not, create_collection_cards_structure yields
\* one entry per card and no two entries with the same id.
MixedList(card_list, set_code) ==
  /\ \A i, j \in 1..Len(card_list) : card_list[i].id = card_list[j].id => i = j
  /\ \E i \in 1..Len(card_list) : Unmatched(card_list[i], set_code)
  /\ \E i \in 1..Len(card_list) : ~Unmatched(card_list[i], set_code)
C29_DistinctCollectionCardIds ==
  (Reshaped /\ MixedList(arg.cards, arg.set_code))
    => /\ Len(res.collection_cards) = Len(arg.cards)
       /\ \A i, j \in 1..Len(res.collection_cards) :
            res.collection_cards[i].id = res.collection_cards[j].id => i = j

\* C30: every file named by a record of the manifest exists in the local
\* tree, after any runs of run_sync and fetch_card_set.
C30_ListedFilesExist ==
  \A s \in Sections :
    \A i \in 1..Len(UpdatesBefore(fs.manifest, s)) :
      LET file == UpdatesBefore(fs.manifest, s)[i].file
      IN /\ file[1] = SectionDir(s)
         /\ fs[s][file[2]].exists
\* fetch_card_set has written the manifest with an archetypes record, and a
\* non-dry run of run_sync has called process_new_set.
C30_Witness ==
  /\ res.ret
  /\ Listed(UpdatesBefore(fs.manifest, "archetypes"), <<SectionDir("archetypes"), res.name>>)
  /\ pc = "done" /\ calls /= <<>> /\ ~dry_run

====
